---- MODULE Spec2Model ----
(***************************************************************************)
(* Model of the weekly-planner's provider layer: services/geminiService    *)
(* (generateWeeklyPlan, generateWithOpenAI, generateWithGemini,            *)
(* validateGeminiConnection), App.handleGenerate and the SettingsModal     *)
(* verification handlers.                                                  *)
(*                                                                         *)
(* Representation.  A JavaScript string that the code inspects (a message  *)
(* content, a base URL, an error message) is a sequence of tokens; a token *)
(* is a run of characters that no operation of the code splits.  The empty *)
(* string is << >>.  Opaque strings that the code only tests for emptiness *)
(* or equality (apiKey, model, timezone, provider) are TLA+ strings.       *)
(* A JavaScript value obtained from JSON is a record [t, s, a, o]: t the   *)
(* type tag, s the string, a the array elements, o the object's members.   *)
(***************************************************************************)
EXTENDS Integers, Sequences, FiniteSets, TLC

\* ------------------------------------------------------------------ bounds

\* Longest model list a /models response carries.
MaxModels == 2

\* ------------------------------------------------------- JavaScript values

NoMembers == [k \in {} |-> 0]

JUndef == [t |-> "undef", s |-> <<>>, a |-> <<>>, o |-> NoMembers]

JNull == [t |-> "null", s |-> <<>>, a |-> <<>>, o |-> NoMembers]

JStr(str) == [t |-> "str", s |-> str, a |-> <<>>, o |-> NoMembers]

JArr(elems) == [t |-> "arr", s |-> <<>>, a |-> elems, o |-> NoMembers]

JObj(members) == [t |-> "obj", s |-> <<>>, a |-> <<>>, o |-> members]

\* v.k for a v that is neither null nor undefined (those throw a TypeError,
\* which the callers model): the member, or undefined.
Get(v, k) == IF v.t = "obj" /\ k \in DOMAIN v.o THEN v.o[k] ELSE JUndef

\* v[i] (0-based) of an array, undefined past its end.
At(v, i) == IF v.t = "arr" /\ i + 1 \in DOMAIN v.a THEN v.a[i + 1] ELSE JUndef

\* JavaScript truthiness of the values of the model.
Truthy(v) == CASE v.t \in {"undef", "null"} -> FALSE
               [] v.t = "str" -> v.s # <<>>
               [] OTHER -> TRUE

Nullish(v) == v.t \in {"undef", "null"}

\* ------------------------------------------------------------ string tools

Whitespace == {" ", "\n"}

RECURSIVE TrimStart(_)
TrimStart(str) ==
  IF str # <<>> /\ Head(str) \in Whitespace THEN TrimStart(Tail(str)) ELSE str

RECURSIVE TrimEnd(_)
TrimEnd(str) ==
  IF str # <<>> /\ str[Len(str)] \in Whitespace
    THEN TrimEnd(SubSeq(str, 1, Len(str) - 1))
    ELSE str

\* String.prototype.trim
Trim(str) == TrimEnd(TrimStart(str))

\* String.prototype.startsWith
StartsWith(str, prefix) ==
  Len(prefix) <= Len(str) /\ SubSeq(str, 1, Len(prefix)) = prefix

\* String.prototype.endsWith
EndsWith(str, suffix) ==
  Len(suffix) <= Len(str)
  /\ SubSeq(str, Len(str) - Len(suffix) + 1, Len(str)) = suffix

\* str.replace(/^prefix/, '')
ReplacePrefix(str, prefix) ==
  IF StartsWith(str, prefix) THEN SubSeq(str, Len(prefix) + 1, Len(str)) ELSE str

\* str.replace(/suffix$/, '')
ReplaceSuffix(str, suffix) ==
  IF EndsWith(str, suffix) THEN SubSeq(str, 1, Len(str) - Len(suffix)) ELSE str

\* String.prototype.includes, for a needle of one token
Includes(str, tok) == \E i \in DOMAIN str : str[i] = tok

\* Whether text occurs in str as a contiguous run.
Contains(str, text) ==
  \E i \in 0..(Len(str) - Len(text)) : SubSeq(str, i + 1, i + Len(text)) = text

\* ------------------------------------------------------------------- JSON

\* The string literals of the JSON texts of the model; the token "x" stands
\* for the text "x" with its quotes.
StrLits ==
  {"refinedGoal", "schedule", "dayName", "tasks", "contentIdeas",
   "g1", "d1", "d2", "t1", "t2", "i1"}

ParseFail == [ok |-> FALSE, v |-> JUndef, i |-> 0]

RECURSIVE SkipWs(_, _)
SkipWs(toks, i) ==
  IF i <= Len(toks) /\ toks[i] \in Whitespace THEN SkipWs(toks, i + 1) ELSE i

RECURSIVE ParseValue(_, _)
RECURSIVE ParseElements(_, _, _)
RECURSIVE ParseMembers(_, _, _)

\* The elements of an array after "[" or ",": a value, then "," or "]".
ParseElements(toks, i, acc) ==
  LET r == ParseValue(toks, i)
      j == SkipWs(toks, r.i)
  IN IF ~r.ok \/ j > Len(toks) THEN ParseFail
     ELSE IF toks[j] = "," THEN ParseElements(toks, j + 1, Append(acc, r.v))
     ELSE IF toks[j] = "]"
       THEN [ok |-> TRUE, v |-> JArr(Append(acc, r.v)), i |-> j + 1]
     ELSE ParseFail

\* The members of an object after "{" or ",": key ":" value, then "," or "}".
\* A repeated key keeps its last value.
ParseMembers(toks, i, acc) ==
  LET k == SkipWs(toks, i)
      c == SkipWs(toks, k + 1)
  IN IF k > Len(toks) \/ c > Len(toks) THEN ParseFail
     ELSE IF toks[k] \notin StrLits \/ toks[c] # ":" THEN ParseFail
     ELSE LET r == ParseValue(toks, c + 1)
              j == SkipWs(toks, r.i)
              ext == [x \in (DOMAIN acc) \cup {toks[k]} |->
                        IF x = toks[k] THEN r.v ELSE acc[x]]
          IN IF ~r.ok \/ j > Len(toks) THEN ParseFail
             ELSE IF toks[j] = "," THEN ParseMembers(toks, j + 1, ext)
             ELSE IF toks[j] = "}"
               THEN [ok |-> TRUE, v |-> JObj(ext), i |-> j + 1]
             ELSE ParseFail

\* One JSON value starting at or after position i (leading whitespace skipped).
ParseValue(toks, i) ==
  LET j == SkipWs(toks, i)
  IN IF j > Len(toks) THEN ParseFail
     ELSE IF toks[j] = "null" THEN [ok |-> TRUE, v |-> JNull, i |-> j + 1]
     ELSE IF toks[j] \in StrLits
       THEN [ok |-> TRUE, v |-> JStr(<<toks[j]>>), i |-> j + 1]
     ELSE IF toks[j] = "["
       THEN LET e == SkipWs(toks, j + 1)
            IN IF e <= Len(toks) /\ toks[e] = "]"
                 THEN [ok |-> TRUE, v |-> JArr(<<>>), i |-> e + 1]
                 ELSE ParseElements(toks, j + 1, <<>>)
     ELSE IF toks[j] = "{"
       THEN LET e == SkipWs(toks, j + 1)
            IN IF e <= Len(toks) /\ toks[e] = "}"
                 THEN [ok |-> TRUE, v |-> JObj(NoMembers), i |-> e + 1]
                 ELSE ParseMembers(toks, j + 1, NoMembers)
     ELSE ParseFail

\* JSON.parse(text): the value, or a SyntaxError (ok = FALSE) when the text
\* is not exactly one JSON value between optional whitespace.
JSONParse(text) ==
  LET r == ParseValue(text, 1)
  IN IF r.ok /\ SkipWs(text, r.i) > Len(text)
       THEN [ok |-> TRUE, v |-> r.v]
       ELSE [ok |-> FALSE, v |-> JUndef]

\* ------------------------------------------------- the backend's JSON texts

\* The order in which a backend writes the members of an object.
KeyOrder == <<"refinedGoal", "schedule", "dayName", "tasks", "contentIdeas">>

RECURSIVE Stringify(_)
RECURSIVE StringifyElems(_, _)
RECURSIVE StringifyMembers(_, _, _)

StringifyElems(elems, i) ==
  IF i > Len(elems) THEN <<>>
  ELSE (IF i > 1 THEN <<",">> ELSE <<>>)
       \o Stringify(elems[i]) \o StringifyElems(elems, i + 1)

StringifyMembers(members, i, first) ==
  IF i > Len(KeyOrder) THEN <<>>
  ELSE IF KeyOrder[i] \notin DOMAIN members
    THEN StringifyMembers(members, i + 1, first)
  ELSE (IF first THEN <<>> ELSE <<",">>)
       \o <<KeyOrder[i], ":">> \o Stringify(members[KeyOrder[i]])
       \o StringifyMembers(members, i + 1, FALSE)

\* The JSON text of a value, as a backend serialises it.
Stringify(v) ==
  CASE v.t = "str" -> v.s
    [] v.t = "arr" -> <<"[">> \o StringifyElems(v.a, 1) \o <<"]">>
    [] v.t = "obj" -> <<"{">> \o StringifyMembers(v.o, 1, TRUE) \o <<"}">>
    [] OTHER -> <<"null">>

\* ApiDayPlan and ApiWeeklyPlanResponse values (types.ts).
ApiDay(name, tasks, ideas) ==
  JObj([k \in {"dayName", "tasks", "contentIdeas"} |->
         CASE k = "dayName" -> JStr(<<name>>)
           [] k = "tasks" -> JArr([i \in DOMAIN tasks |-> JStr(<<tasks[i]>>)])
           [] OTHER -> JArr([i \in DOMAIN ideas |-> JStr(<<ideas[i]>>)])])

ApiPlan(goal, days) ==
  JObj([k \in {"refinedGoal", "schedule"} |->
         IF k = "refinedGoal" THEN JStr(<<goal>>) ELSE JArr(days)])

\* Whether v has the shape of ApiWeeklyPlanResponse.
IsStringArray(v) == v.t = "arr" /\ \A i \in DOMAIN v.a : v.a[i].t = "str"

IsApiDayPlan(v) ==
  /\ v.t = "obj"
  /\ Get(v, "dayName").t = "str"
  /\ IsStringArray(Get(v, "tasks"))
  /\ IsStringArray(Get(v, "contentIdeas"))

IsApiWeeklyPlanResponse(v) ==
  /\ v.t = "obj"
  /\ Get(v, "refinedGoal").t = "str"
  /\ Get(v, "schedule").t = "arr"
  /\ \A i \in DOMAIN Get(v, "schedule").a : IsApiDayPlan(Get(v, "schedule").a[i])

\* Values a backend may answer with: plans of the expected shape ...
WellFormedValues ==
  {ApiPlan("g1", <<ApiDay("d1", <<"t1">>, <<"i1">>)>>),
   ApiPlan("g1", <<ApiDay("d1", <<"t1", "t2">>, <<>>), ApiDay("d2", <<>>, <<"i1">>)>>)}

\* ... and JSON values of another shape.
OtherValues ==
  {JNull,
   JObj(NoMembers),
   JObj([k \in {"refinedGoal"} |-> JStr(<<"g1">>)]),
   JObj([k \in {"schedule"} |-> JArr(<<>>)]),
   ApiPlan("g1", <<JObj([k \in {"dayName"} |-> JStr(<<"d1">>)])>>)}

BackendValues == WellFormedValues \cup OtherValues

\* ---------------------------------------------------- configuration (types)

\* ApiProvider
Providers == {"gemini", "openai"}

\* AppSettings.apiKey: empty, or a key.
ApiKeys == {"", "sk-1"}

\* What reading process.env.API_KEY gives: a key, "" where the environment
\* defines none, or NoProcess where the runtime has no process object at all
\* (a browser running the bundle: vite.config.ts defines no replacement for
\* process.env), and the read throws a ReferenceError.
NoProcess == "process is not defined"

EnvKeys == {"", "env-1", NoProcess}

\* Zones Intl.DateTimeFormat accepts (two of TIMEZONES), and one it rejects.
SupportedTimeZones == {"Asia/Shanghai", "UTC"}

TimeZones == {"Asia/Shanghai", "Mars/Olympus"}

\* The model and the base URL of an endpoint.
Endpoints ==
  {[model |-> "gemini-2.5-flash", baseUrl |-> <<>>],
   [model |-> "gpt-4o-mini", baseUrl |-> <<"https://h", "/", "v1", "/">>]}

SettingsSpace ==
  {[provider |-> p, apiKey |-> k, model |-> e.model, timezone |-> z,
    baseUrl |-> e.baseUrl] :
     p \in Providers, k \in ApiKeys, e \in Endpoints, z \in TimeZones}

DEFAULT_SETTINGS ==
  [provider |-> "gemini", apiKey |-> "", model |-> "gemini-2.5-flash",
   timezone |-> "Asia/Shanghai", baseUrl |-> <<>>]

\* Instants Date.now() and new Date() may return.
Times == {1, 2}

\* ------------------------------------------------------- outcomes of a call

\* The outcome of an asynchronous call: not started, pending, resolved with a
\* value, or rejected with an error (name = the error's class).
NoOutcome == [status |-> "none", name |-> "", msg |-> <<>>, value |-> JUndef]

Pending == [status |-> "pending", name |-> "", msg |-> <<>>, value |-> JUndef]

Resolve(v) == [status |-> "ok", name |-> "", msg |-> <<>>, value |-> v]

Throw(name, msg) == [status |-> "fail", name |-> name, msg |-> msg, value |-> JUndef]

\* The message of JSON.parse's SyntaxError.  V8 quotes the start of the text,
\* SpiderMonkey and JavaScriptCore quote none of it.
SyntaxErrorMessage(text, engine) ==
  IF engine = "v8"
    THEN <<"Unexpected token">>
         \o (IF Len(text) <= 2 THEN text ELSE SubSeq(text, 1, 2) \o <<"...">>)
         \o <<"is not valid JSON">>
    ELSE <<"JSON.parse: unexpected character">>

Engines == {"v8", "other"}

\* ------------------------------------------------------------ HTTP responses

\* What a request ends with: net = "fail" (fetch rejects, or the SDK throws
\* with message text), or a response with a status, its body text (read by
\* response.text()) and the body as response.json() reads it (jsonOk = FALSE
\* when the body is not JSON).
Response(net, status, text, jsonOk, data) ==
  [net |-> net, status |-> status, text |-> text, jsonOk |-> jsonOk, data |-> data]

NoResponse == Response("none", 0, <<>>, FALSE, JUndef)

\* Response.ok
Ok(status) == status >= 200 /\ status <= 299

\* Response.statusText
StatusText(status) ==
  CASE status = 401 -> "Unauthorized"
    [] status = 500 -> "Internal Server Error"
    [] OTHER -> "OK"

\* ------------------------------------------------- services/geminiService

\* buildSystemAndUserPrompt: the system instruction and the user prompt.
BuildSystemAndUserPrompt(dateStr, goalText, isOpenAI) ==
  [systemInstruction |->
     <<"context: now is">> \o dateStr
     \o (IF isOpenAI THEN <<"You MUST return a valid JSON object.">> ELSE <<>>),
   prompt |->
     <<"today is">> \o dateStr \o <<"user input:">> \o goalText
     \o (IF isOpenAI THEN <<"OUTPUT FORMAT REQUIREMENTS">> ELSE <<>>)]

\* A request on the wire.  url is empty for the Gemini SDK's call.
Request(adapter, url, key, model, prompts) ==
  [adapter |-> adapter, url |-> url, key |-> key, model |-> model,
   system |-> prompts.systemInstruction, user |-> prompts.prompt]

NoRequest ==
  [adapter |-> "none", url |-> <<>>, key |-> "", model |-> "",
   system |-> <<>>, user |-> <<>>]

\* What a service function has done when it first awaits: thrown (done, with
\* the outcome), or issued a request.
Thrown(name, msg) == [done |-> TRUE, outcome |-> Throw(name, msg), req |-> NoRequest]

Issued(req) == [done |-> FALSE, outcome |-> Pending, req |-> req]

DefaultBaseUrl == <<"https://api.openai.com", "/", "v1">>

\* generateWithOpenAI, the normalisation of settings.baseUrl.
OpenAIBaseUrl(baseUrl) ==
  LET b == IF baseUrl = <<>> THEN DefaultBaseUrl ELSE baseUrl
  IN IF EndsWith(b, <<"/">>) THEN SubSeq(b, 1, Len(b) - 1) ELSE b

\* generateWithOpenAI up to its fetch.
GenerateWithOpenAIStart(goalText, s, dateStr) ==
  IF s.apiKey = ""
    THEN Thrown("Error", <<"API Key", "(sk-...) is required for this provider.">>)
    ELSE Issued(Request("openai",
                        OpenAIBaseUrl(s.baseUrl) \o <<"/", "chat", "/", "completions">>,
                        s.apiKey, s.model,
                        BuildSystemAndUserPrompt(dateStr, goalText, TRUE)))

\* The token "BQ" is one backquote character.
Fence == <<"BQ", "BQ", "BQ">>

FenceJson == <<"BQ", "BQ", "BQ", "json">>

\* A cleaning that takes the opening fence off and leaves the closing one:
\* what C4 rules out.
StripFenceOpeningOnly(content) ==
  LET jsonStr == Trim(content)
  IN IF StartsWith(jsonStr, FenceJson) THEN ReplacePrefix(jsonStr, FenceJson)
     ELSE IF StartsWith(jsonStr, Fence) THEN ReplacePrefix(jsonStr, Fence)
     ELSE jsonStr

\* generateWithOpenAI, the cleaning of the content.
StripFence(content) ==
  LET jsonStr == Trim(content)
  IN IF StartsWith(jsonStr, FenceJson)
       THEN ReplaceSuffix(ReplacePrefix(jsonStr, FenceJson), Fence)
     ELSE IF StartsWith(jsonStr, Fence)
       THEN ReplaceSuffix(ReplacePrefix(jsonStr, Fence), Fence)
     ELSE jsonStr

\* A parse that keeps the first schedule entry only: what C17 rules out.
ParseContentFirstEntry(content, engine) ==
  LET jsonStr == StripFence(content)
      r == JSONParse(jsonStr)
  IN IF ~r.ok THEN Throw("SyntaxError", SyntaxErrorMessage(jsonStr, engine))
     ELSE IF Get(r.v, "schedule").t = "arr"
       THEN Resolve(JObj([r.v.o EXCEPT
              !["schedule"] = JArr(SubSeq(@.a, 1, IF Len(@.a) = 0 THEN 0 ELSE 1))]))
       ELSE Resolve(r.v)

\* generateWithOpenAI, from the content to the returned value: the cast to
\* ApiWeeklyPlanResponse checks nothing.
ParseContent(content, engine) ==
  LET jsonStr == StripFence(content)
      r == JSONParse(jsonStr)
  IN IF r.ok THEN Resolve(r.v)
     ELSE Throw("SyntaxError", SyntaxErrorMessage(jsonStr, engine))

\* data.choices?.[0]?.message?.content
FirstContent(data) ==
  LET choices == Get(data, "choices")
      first == IF Nullish(choices) THEN JUndef ELSE At(choices, 0)
      message == IF Nullish(first) THEN JUndef ELSE Get(first, "message")
  IN IF Nullish(message) THEN JUndef ELSE Get(message, "content")

\* generateWithOpenAI from the end of its fetch; the catch rethrows.
GenerateWithOpenAIResume(resp, engine) ==
  IF resp.net = "fail" THEN Throw("TypeError", <<"Failed to fetch">>)
  ELSE IF ~Ok(resp.status)
    THEN Throw("Error", <<"API Request failed:", ToString(resp.status),
                          StatusText(resp.status), "-">> \o resp.text)
  ELSE IF ~resp.jsonOk THEN Throw("SyntaxError", SyntaxErrorMessage(resp.text, engine))
  ELSE IF Nullish(resp.data)
    THEN Throw("TypeError", <<"Cannot read properties of null (reading choices)">>)
  ELSE LET content == FirstContent(resp.data)
       IN IF ~Truthy(content) THEN Throw("Error", <<"No content returned from API.">>)
          ELSE IF content.t # "str"
            THEN Throw("TypeError", <<"content.trim is not a function">>)
          ELSE ParseContent(content.s, engine)

\* generateWithGemini up to generateContent.  settings.apiKey || ... reads
\* process.env only when the key of the settings is empty.
GenerateWithGeminiStart(goalText, s, env, dateStr) ==
  IF s.apiKey = "" /\ env = NoProcess
    THEN Thrown("ReferenceError", <<NoProcess>>)
  ELSE LET apiKeyToUse == IF s.apiKey # "" THEN s.apiKey ELSE env
       IN IF apiKeyToUse = ""
            THEN Thrown("Error", <<"Gemini", "API Key", "is missing.">>)
            ELSE Issued(Request("gemini", <<>>, apiKeyToUse, s.model,
                                BuildSystemAndUserPrompt(dateStr, goalText, FALSE)))

\* generateWithGemini from the end of generateContent (resp.data is
\* response.text).
GenerateWithGeminiResume(resp, engine) ==
  IF resp.net = "fail" THEN Throw("Error", resp.text)
  ELSE IF ~Truthy(resp.data) THEN Throw("Error", <<"No response from Gemini">>)
  ELSE LET r == JSONParse(resp.data.s)
       IN IF r.ok THEN Resolve(r.v)
          ELSE Throw("SyntaxError", SyntaxErrorMessage(resp.data.s, engine))

\* formatter.format(now): the date of instant t in zone tz.
FormatDate(tz, t) == <<"date", tz, ToString(t)>>

\* A dispatcher that formats no date and so never meets the zone: what C10
\* rules out.
GenerateWeeklyPlanStartUnchecked(goalText, s, env, t) ==
  IF s.provider = "openai"
    THEN GenerateWithOpenAIStart(goalText, s, <<"date">>)
    ELSE GenerateWithGeminiStart(goalText, s, env, <<"date">>)

\* A dispatcher that takes a configured base URL for the sign of the
\* Freeform provider: what C11 rules out.
GenerateWeeklyPlanStartByBaseUrl(goalText, s, env, t) ==
  IF s.timezone \notin SupportedTimeZones
    THEN Thrown("RangeError", <<"Invalid time zone specified:", s.timezone>>)
  ELSE IF s.baseUrl # <<>>
    THEN GenerateWithOpenAIStart(goalText, s, FormatDate(s.timezone, t))
    ELSE GenerateWithGeminiStart(goalText, s, env, FormatDate(s.timezone, t))

\* generateWeeklyPlan up to its adapter's request.  Intl.DateTimeFormat throws
\* a RangeError for a zone it does not support.
GenerateWeeklyPlanStart(goalText, s, env, t) ==
  IF s.timezone \notin SupportedTimeZones
    THEN Thrown("RangeError", <<"Invalid time zone specified:", s.timezone>>)
  ELSE IF s.provider = "openai"
    THEN GenerateWithOpenAIStart(goalText, s, FormatDate(s.timezone, t))
    ELSE GenerateWithGeminiStart(goalText, s, env, FormatDate(s.timezone, t))

\* The adapter's continuation when its request ends.
GenerateWeeklyPlanResume(adapter, resp, engine) ==
  IF adapter = "openai" THEN GenerateWithOpenAIResume(resp, engine)
                         ELSE GenerateWithGeminiResume(resp, engine)

\* ------------------------------------------------- what the backends answer

\* c between an opening fence (with its language tag) and a closing fence, with
\* the separators sep after the opening and before the closing fence.
Fenced(open, sep, c) == open \o sep \o c \o sep \o Fence

Separators == {<<>>, <<"\n">>}

Paddings == {<<>>, <<" ">>, <<"\n">>}

\* Texts that are not JSON.
GarbageTexts ==
  {<<"Sure", ":", " ", "{", "}">>,
   <<"{", "refinedGoal", ":", "g1">>,
   <<"{", "refinedGoal", ":", "g1", ",", "}">>,
   <<"{", "}", "\n", "BQ", "BQ", "BQ">>,
   <<"BQ", "BQ", "BQ", "JSON", "\n", "{", "}", "\n", "BQ", "BQ", "BQ">>}

JsonTexts == {Stringify(v) : v \in BackendValues}

\* Every way the model's backend lays a text out as a message content.
Layouts(c) ==
  {pre \o c \o post : pre \in Paddings, post \in Paddings}
  \cup {pre \o Fenced(open, sep, c) \o post :
          pre \in Paddings, post \in Paddings,
          open \in {Fence, FenceJson}, sep \in Separators}

AllContents == UNION {Layouts(c) : c \in JsonTexts \cup GarbageTexts}

\* The contents the backend of the generation flow answers with.
FlowGarbage == {<<"Sure", ":", " ", "{", "}">>, <<"{", "refinedGoal", ":", "g1">>}

FlowContents ==
  JsonTexts \cup FlowGarbage
  \cup {Fenced(FenceJson, <<"\n">>, Stringify(v)) : v \in WellFormedValues}
  \cup {Fenced(Fence, <<>>, Stringify(JObj(NoMembers)))}

WithContent(c) ==
  JObj([k \in {"choices"} |->
    JArr(<<JObj([m \in {"message"} |-> JObj([n \in {"content"} |-> c])])>>)])

\* Bodies of a 200 chat-completions response that carry no content string.
ContentlessData ==
  {JNull,
   JObj(NoMembers),
   JObj([k \in {"choices"} |-> JArr(<<>>)]),
   JObj([k \in {"choices"} |-> JArr(<<JObj(NoMembers)>>)]),
   WithContent(JNull),
   WithContent(JStr(<<>>)),
   WithContent(JArr(<<JStr(<<"g1">>)>>))}

ErrorStatuses == {401, 500}

ErrorBodies == {<<>>, <<"invalid", "key">>}

OpenAIResponses ==
  {Response("fail", 0, <<>>, FALSE, JUndef)}
  \cup {Response("ok", st, body, FALSE, JUndef) :
          st \in ErrorStatuses, body \in ErrorBodies}
  \cup {Response("ok", 200, <<"<html>">>, FALSE, JUndef)}
  \cup {Response("ok", 200, <<>>, TRUE, d) : d \in ContentlessData}
  \cup {Response("ok", 200, <<>>, TRUE, WithContent(JStr(c))) : c \in FlowContents}

\* What generateContent ends with: the SDK throws (with its message), or
\* answers with a text, which may be missing.
GeminiResponses ==
  {Response("fail", 0, msg, FALSE, JUndef) :
     msg \in {<<"got status:", "401", "API key not valid">>, <<"fetch failed">>}}
  \cup {Response("ok", 200, <<>>, TRUE, d) : d \in {JUndef, JStr(<<>>)}}
  \cup {Response("ok", 200, <<>>, TRUE, JStr(c)) : c \in JsonTexts \cup FlowGarbage}

Responses(adapter) == IF adapter = "openai" THEN OpenAIResponses ELSE GeminiResponses

\* --------------------------------------------------------------- App.tsx

NoPlanMapped == [ok |-> FALSE, plan |-> <<>>]

\* A mapping whose task ids leave the task index out: what C20 rules out.
MapTasksByDay(tasks, dayIndex, t) ==
  [i \in DOMAIN tasks.a |->
     [id |-> <<dayIndex, t>>, text |-> tasks.a[i], completed |-> FALSE]]

\* handleGenerate, the tasks of one day: one TaskItem per task, not completed,
\* its id from the day index, the task index and Date.now().  The clock
\* reads of one mapping are taken as equal (it runs within a millisecond),
\* which is the case where the ids differ by their indices only.
MapTasks(tasks, dayIndex, t) ==
  [i \in DOMAIN tasks.a |->
     [id |-> <<dayIndex, i - 1, t>>, text |-> tasks.a[i], completed |-> FALSE]]

\* Whether mapping this schedule entry throws a TypeError (day is null, or
\* day.tasks has no map).
DayThrows(day) == Nullish(day) \/ Get(day, "tasks").t # "arr"

\* handleGenerate, the transformation of the API response into a WeeklyPlan;
\* ok = FALSE when it throws a TypeError.
MapToPlan(apiResponse, goal, t) ==
  IF Nullish(apiResponse) THEN NoPlanMapped
  ELSE LET schedule == Get(apiResponse, "schedule")
       IN IF schedule.t # "arr" THEN NoPlanMapped
          ELSE IF \E i \in DOMAIN schedule.a : DayThrows(schedule.a[i])
            THEN NoPlanMapped
          ELSE [ok |-> TRUE,
                plan |-> <<[id |-> t, createdAt |-> t, originalGoal |-> goal,
                            refinedGoal |-> Get(apiResponse, "refinedGoal"),
                            days |-> [i \in DOMAIN schedule.a |->
                              [dayName |-> Get(schedule.a[i], "dayName"),
                               contentIdeas |-> Get(schedule.a[i], "contentIdeas"),
                               tasks |-> MapTasks(Get(schedule.a[i], "tasks"),
                                                  i - 1, t)]]]>>]

AuthFailedMessage == <<"API auth failed. Check your key and endpoint in the settings.">>

GenerateFailedMessage == <<"Failed to generate the plan, check the settings.">>

\* handleGenerate, its catch block: the error shown and whether the settings
\* open.
CatchGenerate(msg, open) ==
  IF msg # <<>> /\ (Includes(msg, "API Key") \/ Includes(msg, "401"))
    THEN [error |-> AuthFailedMessage, isSettingsOpen |-> TRUE]
    ELSE [error |-> IF msg # <<>> THEN msg ELSE GenerateFailedMessage,
          isSettingsOpen |-> open]

\* A handler whose catch block also empties the goal input: what C19 rules
\* out.
SettleGenerateClearingInput(outcome, goal, t, cur) ==
  LET m == IF outcome.status = "ok" THEN MapToPlan(outcome.value, goal, t)
                                    ELSE NoPlanMapped
      msg == IF outcome.status = "ok"
               THEN <<"TypeError: cannot read properties">>
               ELSE outcome.msg
      c == CatchGenerate(msg, cur.isSettingsOpen)
  IN IF m.ok
       THEN [plan |-> m.plan, goalInput |-> <<>>, error |-> cur.error,
             isSettingsOpen |-> cur.isSettingsOpen, isLoading |-> FALSE]
       ELSE [plan |-> cur.plan, goalInput |-> <<>>, error |-> c.error,
             isSettingsOpen |-> c.isSettingsOpen, isLoading |-> FALSE]

\* handleGenerate from the end of its await: the App state it leaves, given
\* the state cur = [plan, goalInput, error, isSettingsOpen] it found.  The
\* success branch sets no error: it stays as setError(null) left it.
SettleGenerate(outcome, goal, t, cur) ==
  LET m == IF outcome.status = "ok" THEN MapToPlan(outcome.value, goal, t)
                                    ELSE NoPlanMapped
      msg == IF outcome.status = "ok"
               THEN <<"TypeError: cannot read properties">>
               ELSE outcome.msg
      c == CatchGenerate(msg, cur.isSettingsOpen)
  IN IF m.ok
       THEN [plan |-> m.plan, goalInput |-> <<>>, error |-> cur.error,
             isSettingsOpen |-> cur.isSettingsOpen, isLoading |-> FALSE]
       ELSE [plan |-> cur.plan, goalInput |-> cur.goalInput, error |-> c.error,
             isSettingsOpen |-> c.isSettingsOpen, isLoading |-> FALSE]

\* day.tasks.findIndex(t => t.id === taskId), 1-based; 0 when no task has
\* the id.
FindIndex(tasks, taskId) ==
  IF \E k \in DOMAIN tasks : tasks[k].id = taskId
    THEN CHOOSE k \in DOMAIN tasks :
           /\ tasks[k].id = taskId
           /\ \A j \in 1..(k - 1) : tasks[j].id # taskId
    ELSE 0

\* A handler that ticks the task and never unticks it: what C21 rules out.
ToggleTaskTicking(p, dayIndex, taskId) ==
  IF p = <<>> THEN p
  ELSE IF dayIndex + 1 \notin DOMAIN p[1].days THEN p
  ELSE LET taskIndex == FindIndex(p[1].days[dayIndex + 1].tasks, taskId)
       IN IF taskIndex = 0 THEN p
          ELSE <<[p[1] EXCEPT
                   !.days[dayIndex + 1].tasks[taskIndex].completed = TRUE]>>

\* toggleTask: the plan it leaves, given the plan p it found.  Without a plan
\* it returns; with a dayIndex past the days, day is undefined and day.tasks
\* throws a TypeError before any setPlan; without a task of that id nothing
\* is set; otherwise the new plan is the old one with that task's flag
\* negated.
ToggleTask(p, dayIndex, taskId) ==
  IF p = <<>> THEN p
  ELSE IF dayIndex + 1 \notin DOMAIN p[1].days THEN p
  ELSE LET taskIndex == FindIndex(p[1].days[dayIndex + 1].tasks, taskId)
       IN IF taskIndex = 0 THEN p
          ELSE <<[p[1] EXCEPT
                   !.days[dayIndex + 1].tasks[taskIndex].completed = ~@]>>

\* ----------------------------------------------------- SettingsModal.tsx

\* handleVerifyOpenAI, the normalisation of formData.baseUrl.
\* A normalisation that takes every trailing slash off: what C13 rules out.
RECURSIVE VerifyBaseUrlGreedy(_)
VerifyBaseUrlGreedy(baseUrl) ==
  LET b == IF baseUrl = <<>> THEN DefaultBaseUrl ELSE baseUrl
  IN IF EndsWith(b, <<"/">>) /\ Len(b) > 1
       THEN VerifyBaseUrlGreedy(SubSeq(b, 1, Len(b) - 1))
     ELSE IF EndsWith(b, <<"/">>) THEN SubSeq(b, 1, Len(b) - 1)
     ELSE b

VerifyBaseUrl(baseUrl) ==
  LET b == IF baseUrl = <<>> THEN DefaultBaseUrl ELSE baseUrl
  IN IF EndsWith(b, <<"/">>) THEN SubSeq(b, 1, Len(b) - 1) ELSE b

\* localeCompare collates on levels: the letters first, whatever their case
\* (a, A < b, B), and the case only between strings of the same letters
\* (lower case first).  Primary and Tertiary are a character's ranks.
Primary(ch) ==
  CASE ch \in {"a", "A"} -> 1
    [] ch \in {"b", "B"} -> 2
    [] OTHER -> 3

Tertiary(ch) == IF ch \in {"A", "B"} THEN 1 ELSE 0

\* The order of two sequences of ranks: negative, zero or positive.
RECURSIVE CompareKeys(_, _)
CompareKeys(x, y) ==
  IF x = <<>> /\ y = <<>> THEN 0
  ELSE IF x = <<>> THEN -1
  ELSE IF y = <<>> THEN 1
  ELSE IF Head(x) < Head(y) THEN -1
  ELSE IF Head(x) > Head(y) THEN 1
  ELSE CompareKeys(Tail(x), Tail(y))

\* a.localeCompare(b), for strings of single characters.
LocaleCompare(a, b) ==
  LET p == CompareKeys([i \in DOMAIN a |-> Primary(a[i])],
                       [i \in DOMAIN b |-> Primary(b[i])])
  IN IF p # 0 THEN p
     ELSE CompareKeys([i \in DOMAIN a |-> Tertiary(a[i])],
                      [i \in DOMAIN b |-> Tertiary(b[i])])

\* list with m put before the first entry that sorts after it.
RECURSIVE InsertModel(_, _)
InsertModel(list, m) ==
  IF list = <<>> THEN <<m>>
  ELSE IF LocaleCompare(m.value, Head(list).value) < 0 THEN <<m>> \o list
  ELSE <<Head(list)>> \o InsertModel(Tail(list), m)

\* Array.prototype.sort with (a, b) => a.value.localeCompare(b.value): stable.
RECURSIVE SortModels(_)
SortModels(list) ==
  IF list = <<>> THEN <<>>
  ELSE InsertModel(SortModels(SubSeq(list, 1, Len(list) - 1)), list[Len(list)])

\* handleVerifyOpenAI: data.data.map(m => ({value: m.id, label: m.id})).sort(..)
ModelsFromApi(descriptors) ==
  SortModels([i \in DOMAIN descriptors |->
                [value |-> Get(descriptors[i], "id").s,
                 label |-> Get(descriptors[i], "id").s]])

\* How a probe stands or ended: models is the list a successful Freeform
\* probe found.
Probe(status, name, msg, models) ==
  [status |-> status, name |-> name, msg |-> msg, models |-> models]

NoProbe == Probe("none", "", <<>>, <<>>)

ProbePending == Probe("pending", "", <<>>, <<>>)

ProbeOk(models) == Probe("ok", "", <<>>, models)

ProbeFail(name, msg) == Probe("fail", name, msg, <<>>)

AbortMessage == <<"The user aborted a request.">>

\* A status check whose error does not say the status: what C2 rules out.
VerifyOpenAIStatusUnnamed(status) ==
  IF ~Ok(status) THEN ProbeFail("Error", <<"HTTP">>)
                 ELSE ProbePending

\* handleVerifyOpenAI at the end of its fetch: the HTTP status alone decides.
VerifyOpenAIStatus(status) ==
  IF ~Ok(status) THEN ProbeFail("Error", <<"HTTP", ToString(status)>>)
                 ELSE ProbePending

\* A try block that takes an empty list for a success: what C5 rules out.
VerifyOpenAIBodyAcceptingNone(resp, engine) ==
  IF resp.net = "fail" THEN ProbeFail("TypeError", <<"Failed to fetch">>)
  ELSE IF ~resp.jsonOk
    THEN ProbeFail("SyntaxError", SyntaxErrorMessage(resp.text, engine))
  ELSE IF Truthy(resp.data) /\ Get(resp.data, "data").t = "arr"
    THEN ProbeOk(ModelsFromApi(Get(resp.data, "data").a))
  ELSE ProbeFail("Error", <<"Bad format">>)

\* handleVerifyOpenAI from the end of response.json(): what its try block
\* ends with.
VerifyOpenAIBody(resp, engine) ==
  IF resp.net = "fail" THEN ProbeFail("TypeError", <<"Failed to fetch">>)
  ELSE IF ~resp.jsonOk
    THEN ProbeFail("SyntaxError", SyntaxErrorMessage(resp.text, engine))
  ELSE IF Truthy(resp.data) /\ Get(resp.data, "data").t = "arr"
    THEN LET modelsFromApi == ModelsFromApi(Get(resp.data, "data").a)
         IN IF Len(modelsFromApi) = 0
              THEN ProbeFail("Error", <<"No models found">>)
              ELSE ProbeOk(modelsFromApi)
  ELSE ProbeFail("Error", <<"Bad format">>)

\* validateGeminiConnection from the end of generateContent.
ValidateGeminiConnection(resp) ==
  IF resp.net = "fail"
    THEN ProbeFail("Error", IF resp.text # <<>> THEN resp.text
                                                ELSE <<"Validation failed">>)
    ELSE ProbeOk(<<>>)

\* Model ids a /models response lists.
ModelIds == {<<"a">>, <<"a", "b">>, <<"B">>}

Descriptor(id) == JObj([k \in {"id"} |-> JStr(id)])

DescriptorLists ==
  UNION {[1..n -> {Descriptor(id) : id \in ModelIds}] : n \in 0..MaxModels}

\* Bodies of a 200 /models response.
ModelsResponses ==
  {Response("ok", 200, <<"<html>">>, FALSE, JUndef),
   Response("fail", 200, <<>>, FALSE, JUndef),
   Response("ok", 200, <<>>, TRUE, JNull),
   Response("ok", 200, <<>>, TRUE, JObj(NoMembers)),
   Response("ok", 200, <<>>, TRUE, JObj([k \in {"data"} |-> JObj(NoMembers)]))}
  \cup {Response("ok", 200, <<>>, TRUE, JObj([k \in {"data"} |-> JArr(l)])) :
          l \in DescriptorLists}

GeminiProbeResponses ==
  {Response("ok", 200, <<>>, TRUE, JStr(<<"pong">>)),
   Response("fail", 0, <<"API key not valid", "400">>, FALSE, JUndef),
   Response("fail", 0, <<>>, FALSE, JUndef)}

\* The modal state a verification leaves when it ends with outcome o, given
\* the list cur it found in fetchedModels.
\* handleVerifyOpenAI: catch shows the error's message.
ShowOpenAI(o, cur) ==
  IF o.status = "ok"
    THEN [fetchedModels |-> o.models,
          connectionStatus |-> "success",
          statusMessage |-> <<"Verified, models found:", ToString(Len(o.models))>>]
    ELSE [fetchedModels |-> cur,
          connectionStatus |-> "error",
          statusMessage |-> IF o.msg # <<>> THEN o.msg ELSE <<"Connection failed">>]

\* handleVerifyGemini: catch shows a fixed message.
ShowGemini(o, cur) ==
  IF o.status = "ok"
    THEN [fetchedModels |-> cur,
          connectionStatus |-> "success",
          statusMessage |-> <<"Verified, the key is valid">>]
    ELSE [fetchedModels |-> cur,
          connectionStatus |-> "error",
          statusMessage |-> <<"Validation failed, check the key">>]

\* handleProviderChange: the form it sets.
ProviderChanged(form, newProvider) ==
  LET newModel ==
        IF newProvider = "gemini" THEN "gemini-2.5-flash"
        \* newModel.startsWith('gemini'), over the model names of Endpoints
        ELSE IF form.model \in {"gemini-2.5-flash"} THEN "gpt-4o-mini"
        ELSE form.model
      newBaseUrl ==
        IF newProvider = "gemini" THEN <<>>
        ELSE IF form.baseUrl = <<>> THEN DefaultBaseUrl
        ELSE form.baseUrl
  IN [form EXCEPT !.provider = newProvider, !.model = newModel,
                  !.baseUrl = newBaseUrl]

\* ------------------------------------------------------------------- state

VARIABLES
  \* App
  settings,          \* AppSettings; the modal's currentSettings prop
  isSettingsOpen,    \* the modal's isOpen prop
  goalInput,         \* the goal text
  plan,              \* << >> (null) or <<the WeeklyPlan>>
  isLoading,         \* a generation is running
  error,             \* << >> (null) or the message shown
  \* the environment of the service
  envKey,            \* process.env.API_KEY
  \* the running call of handleGenerate
  genPc,             \* "idle", or "awaiting" the adapter's request
  genGoal,           \* the goalInput its closure holds
  genReq,            \* the request it issued
  genReqCount,       \* requests issued by the present (or last) call
  genResp,           \* the response its request ended with
  genOutcome,        \* what generateWeeklyPlan resolved or rejected with
  \* SettingsModal
  formData,          \* the settings being edited
  modalIsLoading,    \* isLoading: a verification is running
  fetchedModels,     \* the discovered models, {value, label}
  connectionStatus,  \* "idle", "success" or "error"
  statusMessage,     \* the message shown under the button
  \* the running call of handleVerifyOpenAI / handleVerifyGemini
  verPc,             \* "idle", "fetch" (awaiting fetch), "body" (awaiting
                     \* response.json()), "gemini" (awaiting the SDK)
  verTimer,          \* the 10 s timer: "off", "armed", or "stale" (left
                     \* behind by a request that has ended)
  verAborted,        \* controller.abort() was called
  verReq,            \* the probe request it issued
  verReqCount,       \* requests issued by the present (or last) call
  verResp,           \* the response its request ended with
  verOutcome,        \* how the probe ended
  \* the fence-stripping of generateWithOpenAI applied to one content
  parseInput, parseOutput

appVars == <<settings, isSettingsOpen, goalInput, plan, isLoading, error>>

genVars == <<genPc, genGoal, genReq, genReqCount, genResp, genOutcome>>

modalVars ==
  <<formData, modalIsLoading, fetchedModels, connectionStatus, statusMessage>>

verVars == <<verPc, verTimer, verAborted, verReq, verReqCount, verResp, verOutcome>>

parseVars == <<parseInput, parseOutput>>

vars == <<appVars, envKey, genVars, modalVars, verVars, parseVars>>

GoalInputs == {<<>>, <<" ">>, <<"write", " ", "articles">>}

Init ==
  /\ settings \in SettingsSpace
  /\ isSettingsOpen = FALSE
  /\ goalInput = <<>>
  /\ plan = <<>>
  /\ isLoading = FALSE
  /\ error = <<>>
  /\ envKey \in EnvKeys
  /\ genPc = "idle"
  /\ genGoal = <<>>
  /\ genReq = NoRequest
  /\ genReqCount = 0
  /\ genResp = NoResponse
  /\ genOutcome = NoOutcome
  /\ formData = DEFAULT_SETTINGS
  /\ modalIsLoading = FALSE
  /\ fetchedModels = <<>>
  /\ connectionStatus = "idle"
  /\ statusMessage = <<>>
  /\ verPc = "idle"
  /\ verTimer = "off"
  /\ verAborted = FALSE
  /\ verReq = NoRequest
  /\ verReqCount = 0
  /\ verResp = NoResponse
  /\ verOutcome = NoProbe
  /\ parseInput = <<>>
  /\ parseOutput = NoOutcome

\* ------------------------------------------------------- the App's actions
\* A handler is an operation: the actions take each handler's guard from the
\* handler's own code and call it in every state, except that one run of an
\* asynchronous handler is in flight at a time (its button is not rendered,
\* or is disabled, while isLoading).  genReq .. genOutcome record the present
\* call of handleGenerate, or the last one until the next user event.

ForgetGenerate ==
  IF genPc = "idle"
    THEN /\ genGoal' = <<>>
         /\ genReq' = NoRequest
         /\ genReqCount' = 0
         /\ genResp' = NoResponse
         /\ genOutcome' = NoOutcome
         /\ genPc' = genPc
    ELSE UNCHANGED genVars

\* The user types in the goal textarea (rendered while there is no plan and
\* no generation runs).
SetGoalInput ==
  /\ plan = <<>>
  /\ ~isLoading
  /\ \E g \in GoalInputs : goalInput' = g
  /\ ForgetGenerate
  /\ UNCHANGED <<settings, isSettingsOpen, plan, isLoading, error>>
  /\ UNCHANGED <<envKey, modalVars, verVars, parseVars>>

\* handleSaveSettings, called by the modal's submit, which then closes it.
HandleSaveSettings ==
  /\ isSettingsOpen
  /\ \E s \in SettingsSpace : settings' = s
  /\ isSettingsOpen' = FALSE
  /\ ForgetGenerate
  /\ UNCHANGED <<goalInput, plan, isLoading, error>>
  /\ UNCHANGED <<envKey, modalVars, verVars, parseVars>>

\* The settings button and the modal's close buttons.
ToggleSettings ==
  /\ isSettingsOpen' = ~isSettingsOpen
  /\ ForgetGenerate
  /\ UNCHANGED <<settings, goalInput, plan, isLoading, error>>
  /\ UNCHANGED <<envKey, modalVars, verVars, parseVars>>

\* resetPlan, confirmed.
ResetPlan ==
  /\ plan # <<>>
  /\ plan' = <<>>
  /\ ForgetGenerate
  /\ UNCHANGED <<settings, isSettingsOpen, goalInput, isLoading, error>>
  /\ UNCHANGED <<envKey, modalVars, verVars, parseVars>>

\* A click on a task of the shown plan (it is shown while no generation
\* runs): toggleTask(dayIndex, task.id).
ClickTask ==
  /\ plan # <<>>
  /\ ~isLoading
  /\ \E d \in DOMAIN plan[1].days :
       \E k \in DOMAIN plan[1].days[d].tasks :
         plan' = ToggleTask(plan, d - 1, plan[1].days[d].tasks[k].id)
  /\ ForgetGenerate
  /\ UNCHANGED <<settings, isSettingsOpen, goalInput, isLoading, error>>
  /\ UNCHANGED <<envKey, modalVars, verVars, parseVars>>

\* The App state handleGenerate leaves when it ends.
Settled(outcome, goal, t) ==
  LET n == SettleGenerate(outcome, goal, t,
             [plan |-> plan, goalInput |-> goalInput, error |-> error,
              isSettingsOpen |-> isSettingsOpen])
  IN /\ plan' = n.plan
     /\ goalInput' = n.goalInput
     /\ error' = n.error
     /\ isSettingsOpen' = n.isSettingsOpen
     /\ isLoading' = n.isLoading

\* handleGenerate up to its await; its button is rendered while there is no
\* plan and no generation runs.  A blank goal returns at once.  Otherwise
\* it calls generateWeeklyPlan, which either throws before any request (and
\* the handler ends in its catch block) or issues its request.
HandleGenerate ==
  /\ plan = <<>>
  /\ ~isLoading
  /\ IF Trim(goalInput) = <<>>
       THEN UNCHANGED vars
       ELSE \E t \in Times :
              LET st == GenerateWeeklyPlanStart(goalInput, settings, envKey, t)
              IN /\ genGoal' = goalInput
                 /\ genReq' = st.req
                 /\ genReqCount' = IF st.done THEN 0 ELSE 1
                 /\ genResp' = NoResponse
                 /\ genOutcome' = st.outcome
                 /\ IF st.done
                      THEN /\ genPc' = "idle"
                           /\ Settled(st.outcome, goalInput, t)
                      ELSE /\ genPc' = "awaiting"
                           /\ isLoading' = TRUE
                           /\ error' = <<>>
                           /\ UNCHANGED <<plan, goalInput, isSettingsOpen>>
                 /\ UNCHANGED <<settings, envKey, modalVars, verVars, parseVars>>

\* A handler that sends its request once more when the first one fails:
\* what C8 rules out.
GenerateSettlesRetrying ==
  /\ genPc = "awaiting"
  /\ \E resp \in Responses(genReq.adapter), engine \in Engines, t \in Times :
       LET outcome == GenerateWeeklyPlanResume(genReq.adapter, resp, engine)
       IN /\ genResp' = resp
          /\ IF outcome.status = "fail" /\ genReqCount < 2
               THEN /\ genReqCount' = genReqCount + 1
                    /\ UNCHANGED <<genOutcome, genPc, appVars>>
               ELSE /\ genOutcome' = outcome
                    /\ genPc' = "idle"
                    /\ Settled(outcome, genGoal, t)
                    /\ UNCHANGED <<settings, genReqCount>>
  /\ UNCHANGED <<envKey, genGoal, genReq>>
  /\ UNCHANGED <<modalVars, verVars, parseVars>>

\* The adapter's request ends and handleGenerate runs to its end.
GenerateSettles ==
  /\ genPc = "awaiting"
  /\ \E resp \in Responses(genReq.adapter), engine \in Engines, t \in Times :
       LET outcome == GenerateWeeklyPlanResume(genReq.adapter, resp, engine)
       IN /\ genResp' = resp
          /\ genOutcome' = outcome
          /\ genPc' = "idle"
          /\ Settled(outcome, genGoal, t)
  /\ UNCHANGED <<settings, envKey, genGoal, genReq, genReqCount>>
  /\ UNCHANGED <<modalVars, verVars, parseVars>>

\* ----------------------------------------------------- the modal's actions
\* The App is the modal's environment here: it opens and closes the modal
\* (isSettingsOpen is the isOpen prop) and takes the saved settings (settings
\* is the currentSettings prop).  The modal renders nothing while closed.
\* verReq .. verOutcome record the present verification, or the last one until
\* the next user event.

ForgetVerify ==
  IF verPc = "idle"
    THEN /\ verReq' = NoRequest
         /\ verReqCount' = 0
         /\ verResp' = NoResponse
         /\ verOutcome' = NoProbe
         /\ verAborted' = FALSE
         /\ UNCHANGED <<verPc, verTimer>>
    ELSE UNCHANGED verVars

\* The effect on [isOpen, currentSettings], when the modal opens.
OpenModal ==
  /\ ~isSettingsOpen
  /\ isSettingsOpen' = TRUE
  /\ formData' = settings
  /\ connectionStatus' = "idle"
  /\ statusMessage' = <<>>
  /\ ForgetVerify
  /\ UNCHANGED <<settings, goalInput, plan, isLoading, error>>
  /\ UNCHANGED <<modalIsLoading, fetchedModels>>
  /\ UNCHANGED <<envKey, genVars, parseVars>>

\* onClose.
CloseModal ==
  /\ isSettingsOpen
  /\ isSettingsOpen' = FALSE
  /\ ForgetVerify
  /\ UNCHANGED <<settings, goalInput, plan, isLoading, error>>
  /\ UNCHANGED <<modalVars, envKey, genVars, parseVars>>

\* handleSubmit: onSave(formData), then onClose().
HandleSubmit ==
  /\ isSettingsOpen
  /\ settings' = formData
  /\ isSettingsOpen' = FALSE
  /\ ForgetVerify
  /\ UNCHANGED <<goalInput, plan, isLoading, error>>
  /\ UNCHANGED <<modalVars, envKey, genVars, parseVars>>

\* The inputs of the form: setFormData({...formData, field: value}).
FormEdits(form) ==
  {[form EXCEPT !.apiKey = k] : k \in ApiKeys}
  \cup {[form EXCEPT !.baseUrl = e.baseUrl] : e \in Endpoints}

SetFormData ==
  /\ isSettingsOpen
  /\ \E f \in FormEdits(formData) : formData' = f
  /\ ForgetVerify
  /\ UNCHANGED <<modalIsLoading, fetchedModels, connectionStatus, statusMessage>>
  /\ UNCHANGED <<appVars, envKey, genVars, parseVars>>

HandleProviderChange ==
  /\ isSettingsOpen
  /\ \E newProvider \in Providers : formData' = ProviderChanged(formData, newProvider)
  /\ fetchedModels' = <<>>
  /\ connectionStatus' = "idle"
  /\ statusMessage' = <<>>
  /\ ForgetVerify
  /\ UNCHANGED modalIsLoading
  /\ UNCHANGED <<appVars, envKey, genVars, parseVars>>

\* A verification ends with outcome o: the catch or the success branch, then
\* finally.
VerifyEnds(o, shown) ==
  /\ verOutcome' = o
  /\ verPc' = "idle"
  /\ fetchedModels' = shown.fetchedModels
  /\ connectionStatus' = shown.connectionStatus
  /\ statusMessage' = shown.statusMessage
  /\ modalIsLoading' = FALSE

\* handleVerifyOpenAI up to its fetch.  Without a key it shows an error and
\* returns; otherwise it arms the 10 s timer and issues GET {baseUrl}/models.
\* The button calls it when the form's provider is not Gemini.
HandleVerifyOpenAI ==
  /\ isSettingsOpen
  /\ formData.provider # "gemini"
  /\ ~modalIsLoading
  /\ verResp' = NoResponse
  /\ verAborted' = FALSE
  /\ IF formData.apiKey = ""
       THEN /\ connectionStatus' = "error"
            /\ statusMessage' = <<"Enter the", "API Key", "first">>
            /\ verOutcome' = ProbeFail("", <<"Enter the", "API Key", "first">>)
            /\ verReq' = NoRequest
            /\ verReqCount' = 0
            /\ UNCHANGED <<verPc, verTimer, modalIsLoading>>
       ELSE /\ modalIsLoading' = TRUE
            /\ connectionStatus' = "idle"
            /\ statusMessage' = <<"Connecting...">>
            /\ verOutcome' = ProbePending
            /\ verReq' = Request("openai",
                                 VerifyBaseUrl(formData.baseUrl) \o <<"/", "models">>,
                                 formData.apiKey, "",
                                 [systemInstruction |-> <<>>, prompt |-> <<>>])
            /\ verReqCount' = 1
            /\ verPc' = "fetch"
            /\ verTimer' = "armed"
  /\ UNCHANGED <<formData, fetchedModels>>
  /\ UNCHANGED <<appVars, envKey, genVars, parseVars>>

\* The fetch resolves with the response's status line and headers:
\* clearTimeout, then the status check; a success goes on to response.json().
ProbeResponds ==
  /\ verPc = "fetch"
  /\ \E status \in {200} \cup ErrorStatuses :
       LET o == VerifyOpenAIStatus(status)
       IN /\ verResp' = Response("ok", status, <<>>, FALSE, JUndef)
          /\ verTimer' = "off"
          /\ IF o.status = "fail"
               THEN VerifyEnds(o, ShowOpenAI(o, fetchedModels))
               ELSE /\ verPc' = "body"
                    /\ UNCHANGED <<verOutcome, fetchedModels, connectionStatus,
                                   statusMessage, modalIsLoading>>
  /\ UNCHANGED <<formData, verAborted, verReq, verReqCount>>
  /\ UNCHANGED <<appVars, envKey, genVars, parseVars>>

\* The fetch rejects with a network error.  clearTimeout is skipped: the
\* timer stays behind, bound to a controller whose request is over.
ProbeFails ==
  /\ verPc = "fetch"
  /\ LET o == ProbeFail("TypeError", <<"Failed to fetch">>)
     IN VerifyEnds(o, ShowOpenAI(o, fetchedModels))
  /\ verResp' = Response("fail", 0, <<>>, FALSE, JUndef)
  /\ verTimer' = "stale"
  /\ UNCHANGED <<formData, verAborted, verReq, verReqCount>>
  /\ UNCHANGED <<appVars, envKey, genVars, parseVars>>

\* The timer fires: controller.abort().  A pending fetch rejects with an
\* AbortError; a timer left behind by an ended request aborts nothing.
TimerFires ==
  /\ verTimer # "off"
  /\ verTimer' = "off"
  /\ IF verTimer = "armed"
       THEN /\ verAborted' = TRUE
            /\ LET o == ProbeFail("AbortError", AbortMessage)
               IN VerifyEnds(o, ShowOpenAI(o, fetchedModels))
       ELSE UNCHANGED <<verAborted, verOutcome, verPc, fetchedModels,
                        connectionStatus, statusMessage, modalIsLoading>>
  /\ UNCHANGED <<formData, verReq, verReqCount, verResp>>
  /\ UNCHANGED <<appVars, envKey, genVars, parseVars>>

\* A handler that, on success, also puts the first model found into the
\* form: what C15 rules out.
ProbeBodyArrivesSelecting ==
  /\ verPc = "body"
  /\ \E resp \in ModelsResponses, engine \in Engines :
       LET o == VerifyOpenAIBody(resp, engine)
       IN /\ verResp' = resp
          /\ VerifyEnds(o, ShowOpenAI(o, fetchedModels))
          /\ formData' = IF o.status = "ok"
                           THEN [formData EXCEPT !.model = "gpt-4o-mini"]
                           ELSE formData
  /\ UNCHANGED <<verTimer, verAborted, verReq, verReqCount>>
  /\ UNCHANGED <<appVars, envKey, genVars, parseVars>>

\* response.json() settles: the body arrived (or its stream failed) and the
\* handler runs to its end.
ProbeBodyArrives ==
  /\ verPc = "body"
  /\ \E resp \in ModelsResponses, engine \in Engines :
       LET o == VerifyOpenAIBody(resp, engine)
       IN /\ verResp' = resp
          /\ VerifyEnds(o, ShowOpenAI(o, fetchedModels))
  /\ UNCHANGED <<formData, verTimer, verAborted, verReq, verReqCount>>
  /\ UNCHANGED <<appVars, envKey, genVars, parseVars>>

\* handleVerifyGemini up to validateGeminiConnection's generateContent.  The
\* button calls it when the form's provider is Gemini.
HandleVerifyGemini ==
  /\ isSettingsOpen
  /\ formData.provider = "gemini"
  /\ ~modalIsLoading
  /\ verResp' = NoResponse
  /\ verAborted' = FALSE
  /\ IF formData.apiKey = ""
       THEN /\ connectionStatus' = "error"
            /\ statusMessage' = <<"Enter the", "API Key", "first">>
            /\ verOutcome' = ProbeFail("", <<"Enter the", "API Key", "first">>)
            /\ verReq' = NoRequest
            /\ verReqCount' = 0
            /\ UNCHANGED <<verPc, modalIsLoading>>
       ELSE /\ modalIsLoading' = TRUE
            /\ connectionStatus' = "idle"
            /\ statusMessage' = <<"Validating the key...">>
            /\ verOutcome' = ProbePending
            /\ verReq' = Request("gemini", <<>>, formData.apiKey, "gemini-2.5-flash",
                                 [systemInstruction |-> <<>>, prompt |-> <<"Ping">>])
            /\ verReqCount' = 1
            /\ verPc' = "gemini"
  /\ UNCHANGED <<formData, fetchedModels, verTimer>>
  /\ UNCHANGED <<appVars, envKey, genVars, parseVars>>

\* generateContent settles and handleVerifyGemini runs to its end.
GeminiProbeSettles ==
  /\ verPc = "gemini"
  /\ \E resp \in GeminiProbeResponses :
       LET o == ValidateGeminiConnection(resp)
       IN /\ verResp' = resp
          /\ VerifyEnds(o, ShowGemini(o, fetchedModels))
  /\ UNCHANGED <<formData, verTimer, verAborted, verReq, verReqCount>>
  /\ UNCHANGED <<appVars, envKey, genVars, parseVars>>

Next ==
  \/ SetGoalInput
  \/ HandleSaveSettings
  \/ ToggleSettings
  \/ ResetPlan
  \/ ClickTask
  \/ HandleGenerate
  \/ GenerateSettles

Spec == Init /\ [][Next]_vars

NextModal ==
  \/ OpenModal
  \/ CloseModal
  \/ HandleSubmit
  \/ SetFormData
  \/ HandleProviderChange
  \/ HandleVerifyOpenAI
  \/ ProbeResponds
  \/ ProbeFails
  \/ TimerFires
  \/ ProbeBodyArrives
  \/ HandleVerifyGemini
  \/ GeminiProbeSettles

\* The modal starts under an App that found no saved settings, or a saved
\* Freeform configuration.
InitModal ==
  /\ Init
  /\ envKey = ""
  /\ settings \in {DEFAULT_SETTINGS,
                   [provider |-> "openai", apiKey |-> "sk-1", model |-> "gpt-4o-mini",
                    timezone |-> "Asia/Shanghai",
                    baseUrl |-> <<"https://h", "/", "v1", "/">>]}

SpecModal == InitModal /\ [][NextModal]_vars

\* The timer is the runtime's: once armed and not cleared, it fires.  Nothing
\* obliges the endpoint to answer, or the user to act.
SpecModalFair == SpecModal /\ WF_vars(TimerFires)

\* ------------------------------------------- the calls, without the edits
\* Generation and verification side by side, for every configuration the
\* App may have loaded: the modal is open and its form holds the settings
\* (the effect on isOpen has run), the goal is typed.

InitCalls ==
  /\ settings \in SettingsSpace
  /\ isSettingsOpen = TRUE
  /\ goalInput = <<"write", " ", "articles">>
  /\ plan = <<>>
  /\ isLoading = FALSE
  /\ error = <<>>
  /\ envKey \in EnvKeys
  /\ genPc = "idle"
  /\ genGoal = <<>>
  /\ genReq = NoRequest
  /\ genReqCount = 0
  /\ genResp = NoResponse
  /\ genOutcome = NoOutcome
  /\ formData = settings
  /\ modalIsLoading = FALSE
  /\ fetchedModels = <<>>
  /\ connectionStatus = "idle"
  /\ statusMessage = <<>>
  /\ verPc = "idle"
  /\ verTimer = "off"
  /\ verAborted = FALSE
  /\ verReq = NoRequest
  /\ verReqCount = 0
  /\ verResp = NoResponse
  /\ verOutcome = NoProbe
  /\ parseInput = <<>>
  /\ parseOutput = NoOutcome

NextCalls ==
  \/ HandleGenerate
  \/ GenerateSettles
  \/ HandleVerifyOpenAI
  \/ ProbeResponds
  \/ ProbeFails
  \/ TimerFires
  \/ ProbeBodyArrives
  \/ HandleVerifyGemini
  \/ GeminiProbeSettles

SpecCalls == InitCalls /\ [][NextCalls]_vars

\* ------------------------------------------- the calls, for each base URL
\* The same calls under a configuration whose base URL is unset, a lone
\* slash, or an address with no, one or two trailing slashes.

BaseUrls ==
  {<<>>, <<"/">>, <<"https://h", "/", "v1">>, <<"https://h", "/", "v1", "/">>,
   <<"https://h", "/", "v1", "/", "/">>}

InitUrl ==
  /\ settings \in {[provider |-> p, apiKey |-> "sk-1", model |-> "gpt-4o-mini",
                     timezone |-> "Asia/Shanghai", baseUrl |-> b] :
                      p \in Providers, b \in BaseUrls}
  /\ isSettingsOpen = TRUE
  /\ goalInput = <<"write", " ", "articles">>
  /\ plan = <<>>
  /\ isLoading = FALSE
  /\ error = <<>>
  /\ envKey = ""
  /\ genPc = "idle"
  /\ genGoal = <<>>
  /\ genReq = NoRequest
  /\ genReqCount = 0
  /\ genResp = NoResponse
  /\ genOutcome = NoOutcome
  /\ formData = settings
  /\ modalIsLoading = FALSE
  /\ fetchedModels = <<>>
  /\ connectionStatus = "idle"
  /\ statusMessage = <<>>
  /\ verPc = "idle"
  /\ verTimer = "off"
  /\ verAborted = FALSE
  /\ verReq = NoRequest
  /\ verReqCount = 0
  /\ verResp = NoResponse
  /\ verOutcome = NoProbe
  /\ parseInput = <<>>
  /\ parseOutput = NoOutcome

SpecUrl == InitUrl /\ [][NextCalls]_vars

\* --------------------------------------- the Freeform parse, on its own
\* generateWithOpenAI from a 200 response on, for each layout of each content.

InitParse ==
  /\ settings = DEFAULT_SETTINGS
  /\ isSettingsOpen = FALSE
  /\ goalInput = <<>>
  /\ plan = <<>>
  /\ isLoading = FALSE
  /\ error = <<>>
  /\ envKey = ""
  /\ genPc = "idle"
  /\ genGoal = <<>>
  /\ genReq = NoRequest
  /\ genReqCount = 0
  /\ genResp = NoResponse
  /\ genOutcome = NoOutcome
  /\ formData = DEFAULT_SETTINGS
  /\ modalIsLoading = FALSE
  /\ fetchedModels = <<>>
  /\ connectionStatus = "idle"
  /\ statusMessage = <<>>
  /\ verPc = "idle"
  /\ verTimer = "off"
  /\ verAborted = FALSE
  /\ verReq = NoRequest
  /\ verReqCount = 0
  /\ verResp = NoResponse
  /\ verOutcome = NoProbe
  /\ parseInput \in AllContents
  /\ parseOutput = NoOutcome

ParseReceived ==
  /\ parseOutput = NoOutcome
  /\ \E engine \in Engines :
       parseOutput' = GenerateWithOpenAIResume(
                        Response("ok", 200, <<>>, TRUE, WithContent(JStr(parseInput))),
                        engine)
  /\ UNCHANGED <<parseInput, appVars, envKey, genVars, modalVars, verVars>>

SpecParse == InitParse /\ [][ParseReceived]_vars

\* ------------------------------------------------------------ the claims
\* The code has no failure kinds: it tells its errors apart by their class
\* and their message, as handleGenerate does.  These read the kinds of the
\* specification off an outcome.

MissingCredential(o) == o.status = "fail" /\ Includes(o.msg, "API Key")

InvalidTimezone(o) == o.status = "fail" /\ o.name = "RangeError"

\* C1 as stated, for a process without a default credential: with an empty
\* key in the configuration (and a supported timezone), generate and validate
\* fail with MissingCredential and issue no request.
C1_EmptyKeyIsMissingCredential ==
  /\ (/\ settings.apiKey = ""
      /\ envKey \in {"", NoProcess}
      /\ settings.timezone \in SupportedTimeZones
      /\ genOutcome.status # "none")
     => (MissingCredential(genOutcome) /\ genReqCount = 0)
  /\ (formData.apiKey = "" /\ verOutcome.status # "none")
     => (MissingCredential(verOutcome) /\ verReqCount = 0)

\* The Freeform endpoint has answered the present call with a status that is
\* no success.
GenerateRefused ==
  genReq.adapter = "openai" /\ genResp.net = "ok" /\ ~Ok(genResp.status)

VerifyRefused ==
  verReq.adapter = "openai" /\ verResp.net = "ok" /\ ~Ok(verResp.status)

\* C2: when the Freeform endpoint answers with a non-success status S,
\* generate and validate end in failure, the message carries S, the message
\* of generate carries the body text too, the call has made its one request
\* and is over; the step that takes the answer leaves the plan and the
\* discovered models as they were.
C2_NonSuccessStatusFails ==
  /\ [](GenerateRefused =>
          /\ genOutcome.status = "fail"
          /\ Includes(genOutcome.msg, ToString(genResp.status))
          /\ Contains(genOutcome.msg, genResp.text)
          /\ genReqCount = 1
          /\ genPc = "idle"
          /\ error # <<>>
          /\ ~isLoading)
  /\ [](VerifyRefused =>
          /\ verOutcome.status = "fail"
          /\ Includes(verOutcome.msg, ToString(verResp.status))
          /\ Includes(statusMessage, ToString(verResp.status))
          /\ connectionStatus = "error"
          /\ verReqCount = 1
          /\ verPc = "idle"
          /\ ~modalIsLoading)
  /\ [][/\ (genPc = "awaiting" /\ GenerateRefused') => plan' = plan
        /\ (verPc = "fetch" /\ VerifyRefused') => fetchedModels' = fetchedModels]_vars

\* Both calls were refused with 401, generate with a body, validate with a
\* list found earlier still in place.
C2_Witness ==
  /\ GenerateRefused
  /\ genResp.status = 401
  /\ genResp.text # <<>>
  /\ VerifyRefused
  /\ verResp.status = 401
  /\ fetchedModels # <<>>

\* C3 as stated: what generate returns as a success conforms to the
\* WeeklyPlanResponse shape.
C3_SuccessIsConformant ==
  genOutcome.status = "ok" => IsApiWeeklyPlanResponse(genOutcome.value)

\* C4: for every content c that parses as JSON, the Freeform generate gives
\* the value of c, whether the message content is c, c in a json fence or c
\* in a bare fence (with or without line breaks inside the fence and white
\* space around it).
C4_FencePresenceIsIrrelevant ==
  \A c \in JsonTexts \cup GarbageTexts :
    (JSONParse(c).ok /\ parseInput \in Layouts(c) /\ parseOutput # NoOutcome)
      => parseOutput = Resolve(JSONParse(c).v)

\* A well-formed plan in a json fence was parsed to the plan.
C4_Witness ==
  \E v \in WellFormedValues :
    /\ parseInput = Fenced(FenceJson, <<"\n">>, Stringify(v))
    /\ parseOutput = Resolve(v)

\* The 200 response whose model array is empty.
EmptyModels ==
  Response("ok", 200, <<>>, TRUE, JObj([k \in {"data"} |-> JArr(<<>>)]))

\* C5: when the models endpoint answers 200 with an empty array, validate
\* fails with the no-models error, the connection status is error, and the
\* discovered list is the one from before.
C5_EmptyModelListFails ==
  /\ [](verResp = EmptyModels =>
          /\ verOutcome = ProbeFail("Error", <<"No models found">>)
          /\ connectionStatus = "error"
          /\ statusMessage = <<"No models found">>
          /\ verPc = "idle"
          /\ ~modalIsLoading)
  /\ [][(verResp # EmptyModels /\ verResp' = EmptyModels)
          => fetchedModels' = fetchedModels]_vars

\* The empty array arrived while a list found earlier was shown.
C5_Witness ==
  /\ verResp = EmptyModels
  /\ connectionStatus = "error"
  /\ fetchedModels # <<>>

\* C6 as stated: a started Freeform verification ends, and the loading flag
\* returns to false, whatever the endpoint does.
C6_VerificationEnds ==
  (verPc \in {"fetch", "body"}) ~> (verPc = "idle" /\ ~modalIsLoading)

\* C7 as stated: when the cleaned Freeform content does not parse, the
\* failure of generate carries the content the backend returned.
C7_ParseFailureCarriesRawText ==
  (/\ genReq.adapter = "openai"
   /\ genResp.net = "ok"
   /\ Ok(genResp.status)
   /\ genResp.jsonOk
   /\ genOutcome.status = "fail"
   /\ genOutcome.name = "SyntaxError")
  => Contains(genOutcome.msg, FirstContent(genResp.data).s)

\* C8: a generate call and a validate call issue at most one request each;
\* a call in flight issues no further request, and an ended call none at
\* all: the request and its count change only when a handler is invoked.
C8_NoRetries ==
  /\ [](genReqCount <= 1 /\ verReqCount <= 1)
  /\ [][/\ (genPc # "idle") => (genReq' = genReq /\ genReqCount' = genReqCount)
        /\ (verPc # "idle") => (verReq' = verReq /\ verReqCount' = verReqCount)
        /\ (genReqCount' # genReqCount) => (genPc = "idle" /\ ~isLoading)
        /\ (verReqCount' # verReqCount) => (verPc = "idle" /\ ~modalIsLoading)]_vars

\* A generate and a validate have each failed after their one request.
C8_Witness ==
  /\ genPc = "idle"
  /\ genOutcome.status = "fail"
  /\ genReqCount = 1
  /\ verPc = "idle"
  /\ verOutcome.status = "fail"
  /\ verReqCount = 1

\* The UTF-16 code unit of a character.
CodeUnit(ch) ==
  CASE ch = "A" -> 65
    [] ch = "B" -> 66
    [] ch = "a" -> 97
    [] ch = "b" -> 98
    [] OTHER -> 0

\* C9 as stated: the discovered list has one {id, label = id} entry per
\* descriptor of the response, duplicates kept, and is in ascending
\* lexicographic order of the ids.
C9_SortedLexicographically ==
  (verOutcome.status = "ok" /\ verReq.adapter = "openai")
  => LET l == Get(verResp.data, "data").a
     IN /\ Len(fetchedModels) = Len(l)
        /\ \A i \in DOMAIN fetchedModels :
             fetchedModels[i].label = fetchedModels[i].value
        /\ \A id \in ModelIds :
             Cardinality({i \in DOMAIN fetchedModels : fetchedModels[i].value = id})
               = Cardinality({i \in DOMAIN l : Get(l[i], "id").s = id})
        /\ \A i \in 1..(Len(fetchedModels) - 1) :
             CompareKeys([j \in DOMAIN fetchedModels[i].value |->
                            CodeUnit(fetchedModels[i].value[j])],
                         [j \in DOMAIN fetchedModels[i + 1].value |->
                            CodeUnit(fetchedModels[i + 1].value[j])]) <= 0

\* C10: with an unsupported timezone in the configuration, generate fails
\* with the RangeError of the date formatter, handed to the caller (the
\* handler shows an error and stops loading); no adapter has run and no
\* request was issued.
C10_InvalidTimezoneFailsBeforeDispatch ==
  (settings.timezone \notin SupportedTimeZones /\ genOutcome.status # "none")
  => (/\ InvalidTimezone(genOutcome)
      /\ genReqCount = 0
      /\ genReq = NoRequest
      /\ genPc = "idle"
      /\ error = genOutcome.msg
      /\ plan = <<>>
      /\ ~isLoading)

\* A generate under an unsupported timezone, with a key, has failed.
C10_Witness ==
  /\ settings.timezone \notin SupportedTimeZones
  /\ settings.apiKey # ""
  /\ InvalidTimezone(genOutcome)
  /\ error # <<>>

\* The adapter the present (or last) generate call entered: the one whose
\* request it issued, or the one whose own error it failed with before any
\* request; "none" when the call failed in the dispatcher.
InvokedAdapter ==
  IF genReq.adapter # "none" THEN genReq.adapter
  ELSE IF genOutcome.msg = <<"API Key", "(sk-...) is required for this provider.">>
    THEN "openai"
  ELSE IF genOutcome.msg \in {<<"Gemini", "API Key", "is missing.">>, <<NoProcess>>}
    THEN "gemini"
  ELSE "none"

\* C11, as the code has it: a generate call under a supported timezone
\* enters exactly one adapter, the Freeform one when provider is openai and
\* the Schema-Enforced one when it is gemini, whatever the key, the model and
\* the base URL; under an unsupported timezone it enters none.
C11_DispatchByProvider ==
  (genOutcome.status # "none")
  => IF settings.timezone \in SupportedTimeZones
       THEN InvokedAdapter = settings.provider
       ELSE InvokedAdapter = "none"

\* A call with provider openai, a Gemini model name and no base URL went to
\* the Freeform endpoint.
C11_Witness ==
  /\ settings.provider = "openai"
  /\ settings.model = "gemini-2.5-flash"
  /\ settings.baseUrl = <<>>
  /\ genReq.adapter = "openai"
  /\ genReqCount = 1

\* C11 as stated: every generate call enters exactly one adapter, the one of
\* its provider.
C11_ExactlyOneAdapterPerCall ==
  (genOutcome.status # "none") => InvokedAdapter = settings.provider

\* C12 as stated: the Schema-Enforced adapter (under a supported timezone)
\* sends its request with the key of the configuration when there is one,
\* otherwise with the default credential of the process, and fails with
\* MissingCredential, without a request, when there is neither.
C12_EffectiveKey ==
  (/\ settings.provider = "gemini"
   /\ settings.timezone \in SupportedTimeZones
   /\ genOutcome.status # "none")
  => IF settings.apiKey # ""
       THEN genReqCount = 1 /\ genReq.key = settings.apiKey
     ELSE IF envKey \notin {"", NoProcess}
       THEN genReqCount = 1 /\ genReq.key = envKey
     ELSE MissingCredential(genOutcome) /\ genReqCount = 0 /\ genReq = NoRequest

\* The base the specification describes: the canonical endpoint for an
\* unset or empty baseUrl, otherwise baseUrl less one trailing slash.
NormalizedBase(baseUrl) ==
  IF baseUrl = <<>> THEN <<"https://api.openai.com", "/", "v1">>
  ELSE IF baseUrl[Len(baseUrl)] = "/" THEN SubSeq(baseUrl, 1, Len(baseUrl) - 1)
  ELSE baseUrl

\* C13: for every baseUrl, the Freeform generate sends its request to the
\* normalized base followed by /chat/completions and the Freeform probe to
\* the same base followed by /models.
C13_SameNormalizedBase ==
  /\ (genReq.adapter = "openai")
     => genReq.url = NormalizedBase(settings.baseUrl) \o <<"/", "chat", "/", "completions">>
  /\ (verReq.adapter = "openai")
     => verReq.url = NormalizedBase(formData.baseUrl) \o <<"/", "models">>
  /\ (genReq.adapter = "openai" /\ verReq.adapter = "openai")
     => SubSeq(genReq.url, 1, Len(genReq.url) - 4) = SubSeq(verReq.url, 1, Len(verReq.url) - 2)

\* Under a base URL with two trailing slashes, both requests went to the
\* address with one slash left.
C13_Witness ==
  /\ settings.baseUrl = <<"https://h", "/", "v1", "/", "/">>
  /\ genReq.url = <<"https://h", "/", "v1", "/", "/", "chat", "/", "completions">>
  /\ verReq.url = <<"https://h", "/", "v1", "/", "/", "models">>

\* C14 as stated: when the call of the Schema-Enforced probe fails with a
\* message, validate ends in failure and the message shown is that message.
C14_UnderlyingMessageShown ==
  (/\ verReq.adapter = "gemini"
   /\ verResp.net = "fail"
   /\ verResp.text # <<>>)
  => (/\ verOutcome.status = "fail"
      /\ connectionStatus = "error"
      /\ Contains(statusMessage, verResp.text))

\* A step of a verification run: a verify handler starts, or goes on after
\* one of its awaits, or its timer fires.
VerificationStep ==
  \/ HandleVerifyOpenAI
  \/ ProbeResponds
  \/ ProbeFails
  \/ TimerFires
  \/ ProbeBodyArrives
  \/ HandleVerifyGemini
  \/ GeminiProbeSettles

\* C15: no step of a verification run, of either provider and whatever its
\* outcome, changes the form's provider, apiKey, model, baseUrl or timezone,
\* or the saved settings (or anything else of the App).
C15_VerificationLeavesConfiguration ==
  [][VerificationStep =>
       /\ formData' = formData
       /\ settings' = settings
       /\ UNCHANGED <<appVars, envKey>>]_vars

\* A Freeform verification has found models, and the form is still the
\* settings the modal opened with.
C15_Witness ==
  /\ isSettingsOpen
  /\ verReq.adapter = "openai"
  /\ verOutcome.status = "ok"
  /\ fetchedModels # <<>>
  /\ connectionStatus = "success"
  /\ formData = settings
  /\ formData.provider = "openai"

\* The failure kind EmptyResponse: the adapter's own error for a response
\* without content.
EmptyResponse(o) ==
  /\ o.status = "fail"
  /\ o.name = "Error"
  /\ o.msg \in {<<"No response from Gemini">>, <<"No content returned from API.">>}

\* A successful response without content: no text payload (Schema-Enforced),
\* or a 200 JSON body with no message content in its first choice (Freeform).
CarriesNoContent ==
  /\ genResp.net = "ok"
  /\ \/ /\ genReq.adapter = "gemini"
        /\ ~Truthy(genResp.data)
     \/ /\ genReq.adapter = "openai"
        /\ Ok(genResp.status)
        /\ genResp.jsonOk
        /\ ~Truthy(FirstContent(genResp.data))

\* C16 as stated: a successful response that carries no content makes
\* generate fail with EmptyResponse, and no plan is returned.
C16_NoContentIsEmptyResponse ==
  (CarriesNoContent /\ genOutcome.status \in {"ok", "fail"})
  => EmptyResponse(genOutcome)

\* The well-formed plans whose JSON text, bare or fenced, is the content of
\* the first choice of the received 200 response.
ReceivedPlans ==
  IF /\ genReq.adapter = "openai"
     /\ genResp.net = "ok"
     /\ genResp.status = 200
     /\ genResp.jsonOk
     /\ FirstContent(genResp.data).t = "str"
    THEN {v \in WellFormedValues :
            FirstContent(genResp.data).s \in
              {Stringify(v), Fenced(FenceJson, <<"\n">>, Stringify(v))}}
    ELSE {}

\* C17: a Freeform 200 response whose first choice's content is the JSON of a
\* well-formed WeeklyPlanResponse makes generate return exactly that object:
\* the same refinedGoal and the same schedule entries, in the same order,
\* each with the same dayName, tasks and contentIdeas.
C17_WellFormedContentIsReturned ==
  \A v \in ReceivedPlans :
    (genOutcome.status \in {"ok", "fail"}) =>
      /\ genOutcome = Resolve(v)
      /\ Get(genOutcome.value, "refinedGoal") = Get(v, "refinedGoal")
      /\ Len(Get(genOutcome.value, "schedule").a) = Len(Get(v, "schedule").a)
      /\ \A i \in DOMAIN Get(v, "schedule").a :
           Get(genOutcome.value, "schedule").a[i] = Get(v, "schedule").a[i]

\* generate has returned the two-day plan it received inside a fence.
C17_Witness ==
  /\ ReceivedPlans # {}
  /\ genOutcome.status = "ok"
  /\ Len(Get(genOutcome.value, "schedule").a) = 2
  /\ Head(FirstContent(genResp.data).s) = "BQ"

\* The result of a verification arrives for a form whose provider was changed
\* while the verification was in flight: the request in flight is the one of
\* the other provider.
StaleResultArrives ==
  /\ verPc # "idle"
  /\ verPc' = "idle"
  /\ verReq.adapter \in Providers
  /\ verReq.adapter # formData.provider

\* C18 as stated: the result of a verification that was in flight when the
\* provider changed does not overwrite the reset state: the shown connection
\* status, message and discovered models stay as the reset left them.
C18_StaleResultIsDropped ==
  [][StaleResultArrives =>
       UNCHANGED <<connectionStatus, statusMessage, fetchedModels>>]_vars

\* A call of handleGenerate ends in this step: its awaited request settles,
\* or generateWeeklyPlan fails before any request.
GenerateEnds ==
  \/ genPc = "awaiting" /\ genPc' = "idle"
  \/ genPc = "idle" /\ genPc' = "idle" /\ genOutcome'.status = "fail"
       /\ genOutcome' # genOutcome

\* The call that ends returned a response whose schedule can be mapped.
GenerateSucceeds ==
  /\ GenerateEnds
  /\ genOutcome'.status = "ok"
  /\ MapToPlan(genOutcome'.value, <<>>, 0).ok

\* C19: a generation that fails, in the service or in the mapping of its
\* response, leaves the plan and the goal input as they were and sets an error
\* message; one that succeeds puts the mapped plan in place, empties the goal
\* input and leaves the error cleared; the loading flag is true exactly while
\* the call awaits its request, and a blank goal starts no call.
C19_HandleGenerateEffects ==
  /\ [](isLoading <=> genPc = "awaiting")
  /\ [][/\ (GenerateEnds /\ ~GenerateSucceeds) =>
             /\ plan' = plan
             /\ goalInput' = goalInput
             /\ error' # <<>>
             /\ ~isLoading'
        /\ GenerateSucceeds =>
             /\ \E t \in Times :
                  plan' = MapToPlan(genOutcome'.value, genGoal, t).plan
             /\ plan' # <<>>
             /\ goalInput' = <<>>
             /\ error' = <<>>
             /\ ~isLoading'
        /\ (genPc = "idle" /\ genPc' = "awaiting") =>
             /\ Trim(goalInput) # <<>>
             /\ isLoading'
             /\ error' = <<>>
        /\ (genPc = "idle" /\ Trim(goalInput) = <<>>) =>
             /\ genPc' = "idle"
             /\ genReqCount' = 0
             /\ genOutcome' \in {genOutcome, NoOutcome}
             /\ UNCHANGED <<isLoading, error>>]_vars

\* A generation whose response could not be mapped has ended: the error is
\* shown, the goal is still in the input, and no plan is there.
C19_Witness ==
  /\ genPc = "idle"
  /\ genOutcome.status = "ok"
  /\ ~MapToPlan(genOutcome.value, <<>>, 0).ok
  /\ error # <<>>
  /\ goalInput = genGoal
  /\ Trim(goalInput) # <<>>
  /\ plan = <<>>
  /\ ~isLoading

\* The plan in place is the one the generation that has just ended mapped
\* from its response.
PlanJustMapped ==
  /\ genPc = "idle"
  /\ genOutcome.status = "ok"
  /\ MapToPlan(genOutcome.value, <<>>, 0).ok
  /\ plan # <<>>

\* The (day, task) positions of a plan.
TaskPositions(p) ==
  UNION {{<<d, k>> : k \in DOMAIN p.days[d].tasks} : d \in DOMAIN p.days}

\* C20: the mapped plan has one day per schedule entry, in order; each day has
\* one task per task string, in order and with the same text; every task is
\* not completed; and the task ids of the plan are pairwise distinct.
C20_PlanMapping ==
  PlanJustMapped =>
    LET p == plan[1]
        schedule == Get(genOutcome.value, "schedule").a
    IN /\ Len(p.days) = Len(schedule)
       /\ \A d \in DOMAIN schedule :
            LET texts == Get(schedule[d], "tasks").a
            IN /\ p.days[d].dayName = Get(schedule[d], "dayName")
               /\ Len(p.days[d].tasks) = Len(texts)
               /\ \A k \in DOMAIN texts :
                    /\ p.days[d].tasks[k].text = texts[k]
                    /\ ~p.days[d].tasks[k].completed
       /\ \A x \in TaskPositions(p), y \in TaskPositions(p) :
            (p.days[x[1]].tasks[x[2]].id = p.days[y[1]].tasks[y[2]].id) => x = y

\* A plan of two days, the first with two tasks, has just been mapped.
C20_Witness ==
  /\ PlanJustMapped
  /\ Len(plan[1].days) = 2
  /\ Len(plan[1].days[1].tasks) = 2
  /\ plan[1].days[1].tasks[2].text = JStr(<<"t2">>)

\* An id no task of the model has.
AbsentTaskId == <<0, 0, 0>>

\* The task ids of plan p.
TaskIdsOf(p) ==
  IF p = <<>> THEN {}
  ELSE {p[1].days[x[1]].tasks[x[2]].id : x \in TaskPositions(p[1])}

\* The day indices toggleTask is tried with: those of the plan and the one
\* past its last day.
DayIndicesOf(p) == IF p = <<>> THEN {0} ELSE 0..Len(p[1].days)

\* Whether q is p with the completed flag of the task at position x negated
\* and everything else as it was.
FlippedAt(p, q, x) ==
  /\ q # <<>>
  /\ q[1].id = p[1].id
  /\ q[1].createdAt = p[1].createdAt
  /\ q[1].originalGoal = p[1].originalGoal
  /\ q[1].refinedGoal = p[1].refinedGoal
  /\ Len(q[1].days) = Len(p[1].days)
  /\ \A d \in DOMAIN p[1].days :
       /\ q[1].days[d].dayName = p[1].days[d].dayName
       /\ q[1].days[d].contentIdeas = p[1].days[d].contentIdeas
       /\ Len(q[1].days[d].tasks) = Len(p[1].days[d].tasks)
       /\ \A k \in DOMAIN p[1].days[d].tasks :
            /\ q[1].days[d].tasks[k].id = p[1].days[d].tasks[k].id
            /\ q[1].days[d].tasks[k].text = p[1].days[d].tasks[k].text
            /\ q[1].days[d].tasks[k].completed =
                 IF <<d, k>> = x THEN ~p[1].days[d].tasks[k].completed
                                 ELSE p[1].days[d].tasks[k].completed

\* C21: on every plan the App reaches, and with no plan, toggleTask(dayIndex,
\* taskId) negates the completed flag of exactly the task with that id in
\* that day and keeps every other task, every other day, the order, texts and
\* ids of the tasks and the goals; it changes nothing when there is no plan
\* or no task with that id in that day; applied twice it restores the plan.
C21_ToggleTaskFrame ==
  \A dayIndex \in DayIndicesOf(plan), taskId \in TaskIdsOf(plan) \cup {AbsentTaskId} :
    LET q == ToggleTask(plan, dayIndex, taskId)
        hits == IF plan = <<>> THEN {}
                ELSE {x \in TaskPositions(plan[1]) :
                        /\ x[1] = dayIndex + 1
                        /\ plan[1].days[x[1]].tasks[x[2]].id = taskId}
    IN /\ (hits = {}) => q = plan
       /\ (hits # {}) => \E x \in hits : hits = {x} /\ FlippedAt(plan, q, x)
       /\ ToggleTask(q, dayIndex, taskId) = plan

\* The second task of the first day of a two-day plan has been ticked, the
\* first has not.
C21_Witness ==
  /\ plan # <<>>
  /\ Len(plan[1].days) = 2
  /\ Len(plan[1].days[1].tasks) = 2
  /\ plan[1].days[1].tasks[2].completed
  /\ ~plan[1].days[1].tasks[1].completed

====
